---- MODULE Spec2Model ----
(***************************************************************************)
(* spotify-mcp: the three variants of the service.                         *)
(*   "MCPServer" src/MCPServer/__init__.py  Azure function main() with the *)
(*               module-level token cache (_cached_token, _token_expiry)   *)
(*   "server"    src/server.py  FastMCP HTTP app behind                    *)
(*               BearerTokenMiddleware, token fetched per tool call        *)
(*   "app"       src/app.py     Starlette app mounting /healthz and /mcp   *)
(* Text is modelled as a sequence of one-character strings, so that        *)
(* startswith / replace / strip / `in` are computed as Python computes     *)
(* them.  An absent value (Python None) of a header or of an environment   *)
(* variable is the record Absent.                                          *)
(***************************************************************************)
EXTENDS Integers, Sequences, FiniteSets, TLC

\* ------------------------------------------------------------------ bounds
MaxClock == 2
MaxTokens == 2
MaxPieces == 3

\* ------------------------------------------------------- program constants
\* _cached_token = None
NoToken == 0
\* _token_expiry = 0
InitialExpiry == 0
\* now + data.get("expires_in", 3600) - 30
DefaultExpiresIn == 3600
SafetyMargin == 30

Threads == {1, 2}
Variants == {"MCPServer", "server", "app"}

\* -------------------------------------------------------------------- text
BearerPrefix == <<"B", "e", "a", "r", "e", "r", " ">>
McpMarker == <<"/", "m", "c", "p">>
RootPath == <<"/">>
HealthzPath == <<"/", "h", "e", "a", "l", "t", "h", "z">>

\* str.startswith
StartsWith(s, p) == Len(s) >= Len(p) /\ SubSeq(s, 1, Len(p)) = p

\* `sub in s`
Contains(s, sub) ==
    \E i \in 1..(Len(s) - Len(sub) + 1) : SubSeq(s, i, i + Len(sub) - 1) = sub

\* str.replace(old, ""): every non-overlapping occurrence, left to right
RECURSIVE Replace(_, _)
Replace(s, old) ==
    IF Len(s) < Len(old) THEN s
    ELSE IF StartsWith(s, old)
         THEN Replace(SubSeq(s, Len(old) + 1, Len(s)), old)
         ELSE <<Head(s)>> \o Replace(Tail(s), old)

IsSpace(c) == c \in {" ", "\t"}

RECURSIVE LStrip(_)
LStrip(s) == IF s # <<>> /\ IsSpace(Head(s)) THEN LStrip(Tail(s)) ELSE s

RECURSIVE RStrip(_)
RStrip(s) ==
    IF s # <<>> /\ IsSpace(s[Len(s)]) THEN RStrip(SubSeq(s, 1, Len(s) - 1)) ELSE s

\* str.strip()
Strip(s) == RStrip(LStrip(s))

\* an optional text: os.getenv(...) / headers.get(...) give None when absent
Absent == [present |-> FALSE, val |-> <<>>]
Some(s) == [present |-> TRUE, val |-> s]

\* Python truthiness of an optional text: None and "" are falsy
Truthy(h) == h.present /\ h.val # <<>>

\* `a or b`
PyOr(a, b) == IF Truthy(a) THEN a ELSE b


\* ----------------------------------------------------------- environment
EnvValues == {Absent, Some(<<>>), Some(<<"k">>)}
Secrets == {<<"k">>, BearerPrefix \o <<"k">>}
LocalValues == {Absent, Some(<<>>)} \cup {Some(s) : s \in Secrets}
Envs ==
    [SPOTIFY_CLIENT_ID : EnvValues, SPOTIFY_CLIENT_SECRET : EnvValues,
     LOCAL_TOKEN : LocalValues]

\* ------------------------------------------------- upstream token endpoint
Statuses == {200, 300, 500}
ExpiresInValues == {SafetyMargin, SafetyMargin + 1}
NoData == [kind |-> "none", val |-> 0]
\* the expires_in member of the JSON body: missing, a number, or a value that
\* is no number (null, a string)
ExpiresInFields ==
    {[kind |-> "absent", val |-> 0], [kind |-> "bad", val |-> 0]}
        \cup {[kind |-> "int", val |-> v] : v \in ExpiresInValues}
NoBody == [json |-> FALSE, access |-> FALSE, expires_in |-> NoData]
Bodies ==
    {NoBody} \cup
    {[json |-> TRUE, access |-> a, expires_in |-> e] :
        a \in BOOLEAN, e \in ExpiresInFields}
\* what requests.post(..., timeout=10) can end with
Responses ==
    {[net |-> n, status |-> 0, body |-> NoBody] : n \in {"error", "timeout"}}
        \cup {[net |-> "ok", status |-> s, body |-> b] :
                s \in Statuses, b \in Bodies}

\* requests.Response.raise_for_status(): HTTPError for 4xx and 5xx only
RaiseForStatus(status) == 400 =< status /\ status < 600

\* data.get("expires_in", 3600)
ExpiresIn(field) == IF field.kind = "absent" THEN DefaultExpiresIn ELSE field.val

\* ------------------------------------------------------------------ state
VARIABLES
    variant,        \* which of the three programs runs
    phase,          \* "import" (module code running), "serving", "failed"
    env,            \* the process environment read by os.getenv
    clock,          \* time.time()
    cached_token,   \* MCPServer _cached_token
    token_expiry,   \* MCPServer _token_expiry
    issued,         \* access tokens handed out by accounts.spotify.com so far
    expBy,          \* which refresh (its request number) wrote _token_expiry
    tokDone,        \* the refresh that wrote _cached_token wrote its expiry too
    pc,             \* per execution context: where its request is
    req,            \* the inbound request being handled
    decision,       \* BearerTokenMiddleware's outcome for it
    ran,            \* a tool handler was entered for it
    now,            \* get_spotify_token's local `now`
    seen,           \* the cache when `now` was taken, if it was fresh then
    serial,         \* the access token this call was handed (its number)
    data,           \* the expires_in member of the body this call received
    upstream,       \* how the token request ended: "none", "good", "failed"
    posts,          \* token requests sent by this invocation
    gets,           \* Spotify data requests sent by this invocation
    result,         \* what get_spotify_token gave the tool
    reply           \* the response given to the caller

config == <<variant, phase, env>>
cache == <<cached_token, token_expiry, issued, expBy, tokDone>>
locals ==
    <<pc, req, decision, ran, now, seen, serial, data, upstream, posts, gets,
      result, reply>>
vars == <<config, clock, cache, locals>>

\* the module globals, read once from the environment (os.getenv)
SPOTIFY_CLIENT_ID == env.SPOTIFY_CLIENT_ID
SPOTIFY_CLIENT_SECRET == env.SPOTIFY_CLIENT_SECRET
LOCAL_TOKEN == env.LOCAL_TOKEN

NoRequest == [path |-> <<>>, auth |-> Absent, apikey |-> Absent]
NoResult == [kind |-> "none", tok |-> NoToken, exp |-> 0, exc |-> ""]
NoReply == [status |-> 0, kind |-> "none", msg |-> ""]
NoSeen == [tok |-> NoToken, exp |-> 0]

\* a context with no request in hand
Reset(t) ==
    /\ req' = [req EXCEPT ![t] = NoRequest]
    /\ decision' = [decision EXCEPT ![t] = "none"]
    /\ ran' = [ran EXCEPT ![t] = FALSE]
    /\ now' = [now EXCEPT ![t] = 0]
    /\ seen' = [seen EXCEPT ![t] = NoSeen]
    /\ serial' = [serial EXCEPT ![t] = 0]
    /\ data' = [data EXCEPT ![t] = NoData]
    /\ upstream' = [upstream EXCEPT ![t] = "none"]
    /\ posts' = [posts EXCEPT ![t] = 0]
    /\ gets' = [gets EXCEPT ![t] = 0]
    /\ result' = [result EXCEPT ![t] = NoResult]
    /\ reply' = [reply EXCEPT ![t] = NoReply]

InitState ==
    /\ clock = 0
    /\ cached_token = NoToken
    /\ token_expiry = InitialExpiry
    /\ issued = 0
    /\ expBy = 0
    /\ tokDone = FALSE
    /\ pc = [t \in Threads |-> "idle"]
    /\ req = [t \in Threads |-> NoRequest]
    /\ decision = [t \in Threads |-> "none"]
    /\ ran = [t \in Threads |-> FALSE]
    /\ now = [t \in Threads |-> 0]
    /\ seen = [t \in Threads |-> NoSeen]
    /\ serial = [t \in Threads |-> 0]
    /\ data = [t \in Threads |-> NoData]
    /\ upstream = [t \in Threads |-> "none"]
    /\ posts = [t \in Threads |-> 0]
    /\ gets = [t \in Threads |-> 0]
    /\ result = [t \in Threads |-> NoResult]
    /\ reply = [t \in Threads |-> NoReply]

\* ---------------------------------------------------------- module import
\* src/server.py: both Spotify credentials, then LOCAL_TOKEN, or EnvironmentError
ImportServer ==
    /\ variant = "server" /\ phase = "import"
    /\ phase' = IF ~Truthy(SPOTIFY_CLIENT_ID) \/ ~Truthy(SPOTIFY_CLIENT_SECRET)
                THEN "failed"
                ELSE IF ~Truthy(LOCAL_TOKEN) THEN "failed" ELSE "serving"
    /\ UNCHANGED <<variant, env, clock, cache, locals>>

\* src/app.py: both Spotify credentials, or EnvironmentError
ImportApp ==
    /\ variant = "app" /\ phase = "import"
    /\ phase' = IF ~Truthy(SPOTIFY_CLIENT_ID) \/ ~Truthy(SPOTIFY_CLIENT_SECRET)
                THEN "failed" ELSE "serving"
    /\ UNCHANGED <<variant, env, clock, cache, locals>>

\* src/MCPServer/__init__.py: a missing credential is logged as a warning and
\* the module goes on loading
ImportMCPServer ==
    /\ variant = "MCPServer" /\ phase = "import"
    /\ phase' = "serving"
    /\ UNCHANGED <<variant, env, clock, cache, locals>>

\* ------------------------------------------------------------------ clock
Tick ==
    /\ phase = "serving"
    /\ clock < MaxClock
    /\ clock' = clock + 1
    /\ UNCHANGED <<config, cache, locals>>

\* ------------------------------------------------- MCPServer: main(req)
Tools ==
    {"search_artist_by_name", "get_artist_top_tracks", "get_artist_albums",
     "get_audio_features", "get_artist_profile", "get_available_tools",
     "health_check", ""}
\* the tools whose first statement is token = get_spotify_token()
TokenTools ==
    {"search_artist_by_name", "get_artist_top_tracks", "get_artist_albums",
     "get_audio_features", "get_artist_profile"}

\* except clauses that answer as if the tool had returned
MainExceptSwallowed(exc, status) == [status |-> 200, kind |-> "result", msg |-> ""]

\* main's two except clauses
MainExcept(exc, status) ==
    IF exc = "HTTPError"
    THEN [status |-> status, kind |-> "error", msg |-> "Spotify API error"]
    ELSE [status |-> 500, kind |-> "error", msg |-> "str(e)"]

MainOk == [status |-> 200, kind |-> "result", msg |-> ""]

\* main up to the call of the tool; no header of the request is read.  bodyKind: the request body is no JSON
\* ("invalid": body = {}), JSON that is no object ("other": body.get raises
\* outside the try), or an object.  argsOk: **args fits the tool's signature.
\* idsGiven: get_audio_features was given a non-empty track_ids.
MainEntry(t) ==
    /\ variant = "MCPServer" /\ phase = "serving"
    /\ pc[t] = "idle"
    /\ \E bodyKind \in {"invalid", "other", "object"},
          tool \in Tools, argsOk \in BOOLEAN, idsGiven \in BOOLEAN :
        IF bodyKind = "other"
        THEN /\ pc' = [pc EXCEPT ![t] = "escaped"]
             /\ UNCHANGED <<ran, reply>>
        ELSE IF bodyKind = "invalid" \/ tool = ""
        THEN /\ pc' = [pc EXCEPT ![t] = "done"]
             /\ reply' = [reply EXCEPT ![t] = MainOk]
             /\ UNCHANGED ran
        ELSE IF ~argsOk /\ tool \notin {"get_available_tools", "health_check"}
        THEN /\ pc' = [pc EXCEPT ![t] = "done"]
             /\ reply' = [reply EXCEPT ![t] = MainExcept("Exception", 0)]
             /\ UNCHANGED ran
        ELSE IF tool \notin TokenTools \/ (tool = "get_audio_features" /\ ~idsGiven)
        THEN /\ pc' = [pc EXCEPT ![t] = "done"]
             /\ reply' = [reply EXCEPT ![t] = MainOk]
             /\ ran' = [ran EXCEPT ![t] = TRUE]
        ELSE /\ pc' = [pc EXCEPT ![t] = "gst_now"]
             /\ ran' = [ran EXCEPT ![t] = TRUE]
             /\ UNCHANGED reply
    /\ UNCHANGED <<config, clock, cache, req, decision, now, seen, serial, data,
                   upstream, posts, gets, result>>

\* ------------------------------------- MCPServer: get_spotify_token()
\* the comparison of line 31 turned round
CacheFreshInverted(tok, n, expiry) == tok # NoToken /\ n > expiry

\* _cached_token and now < _token_expiry
CacheFresh(tok, n, expiry) == tok # NoToken /\ n < expiry

\* now = time.time()
GetTokenNow(t) ==
    /\ variant = "MCPServer" /\ pc[t] = "gst_now"
    /\ now' = [now EXCEPT ![t] = clock]
    /\ seen' = [seen EXCEPT ![t] =
            IF cached_token # NoToken /\ clock < token_expiry
            THEN [tok |-> cached_token, exp |-> token_expiry] ELSE NoSeen]
    /\ pc' = [pc EXCEPT ![t] = "gst_chk"]
    /\ UNCHANGED <<config, clock, cache, req, decision, ran, serial, data,
                   upstream, posts, gets, result, reply>>

\* if _cached_token and now < _token_expiry:   (_cached_token, once set, is
\* never None again, so reading the two globals one after the other gives
\* what reading both at the second read gives)
CheckCache(t) ==
    /\ variant = "MCPServer" /\ pc[t] = "gst_chk"
    /\ pc' = [pc EXCEPT ![t] =
            IF CacheFresh(cached_token, now[t], token_expiry) THEN "gst_hit" ELSE "gst_post"]
    /\ UNCHANGED <<config, clock, cache, req, decision, ran, now, seen, serial,
                   data, upstream, posts, gets, result, reply>>

Returned(tok, exp) == [kind |-> "token", tok |-> tok, exp |-> exp, exc |-> ""]
Raised(exc) == [kind |-> "raise", tok |-> NoToken, exp |-> 0, exc |-> exc]

\* return _cached_token   (the fast path)
ReturnCached(t) ==
    /\ variant = "MCPServer" /\ pc[t] = "gst_hit"
    /\ result' = [result EXCEPT ![t] = Returned(cached_token, token_expiry)]
    /\ pc' = [pc EXCEPT ![t] = "tool_get"]
    /\ UNCHANGED <<config, clock, cache, req, decision, ran, now, seen, serial,
                   data, upstream, posts, gets, reply>>

\* requests.post(...) is sent; the context blocks until the answer
PostToken(t) ==
    /\ variant = "MCPServer" /\ pc[t] = "gst_post"
    /\ posts' = [posts EXCEPT ![t] = posts[t] + 1]
    /\ pc' = [pc EXCEPT ![t] = "gst_recv"]
    /\ UNCHANGED <<config, clock, cache, req, decision, ran, now, seen, serial,
                   data, upstream, gets, result, reply>>

\* the exception, if any, of lines 35-43: requests.post (a RequestException),
\* raise_for_status (an HTTPError), res.json() (a JSONDecodeError),
\* data["access_token"] (a KeyError); main tells HTTPError from the rest
TokenException(r) ==
    IF r.net # "ok" THEN "Exception"
    ELSE IF RaiseForStatus(r.status) THEN "HTTPError"
    ELSE IF ~r.body.json THEN "Exception"
    ELSE IF ~r.body.access THEN "Exception"
    ELSE ""

\* bookkeeping for C6, the failures as the specification lists them: no
\* answer, a status outside 2xx, or a body without access_token
RequestFailed(r) ==
    \/ r.net # "ok"
    \/ ~(200 =< r.status /\ r.status < 300)
    \/ ~r.body.json
    \/ ~r.body.access

\* the answer arrives; _cached_token = data["access_token"], or the exception
\* is logged, re-raised and caught by main
ReceiveToken(t) ==
    /\ variant = "MCPServer" /\ pc[t] = "gst_recv"
    /\ \E r \in Responses :
        /\ upstream' = [upstream EXCEPT ![t] = IF RequestFailed(r) THEN "failed" ELSE "good"]
        /\ IF TokenException(r) # ""
           THEN /\ result' = [result EXCEPT ![t] = Raised(TokenException(r))]
                /\ reply' = [reply EXCEPT ![t] = MainExcept(TokenException(r), r.status)]
                /\ pc' = [pc EXCEPT ![t] = "done"]
                /\ now' = [now EXCEPT ![t] = 0]
                /\ UNCHANGED <<cached_token, tokDone, issued, serial, data>>
           ELSE /\ issued < MaxTokens
                /\ issued' = issued + 1
                /\ serial' = [serial EXCEPT ![t] = issued + 1]
                /\ cached_token' = issued + 1
                /\ tokDone' = FALSE
                /\ data' = [data EXCEPT ![t] = r.body.expires_in]
                /\ pc' = [pc EXCEPT ![t] = "gst_exp"]
                /\ UNCHANGED <<result, reply, now>>
    /\ UNCHANGED <<config, clock, token_expiry, expBy, req, decision, ran, seen,
                   posts, gets>>

\* the expiry of line 44 without its margin
NewExpiryNoMargin(n, field) == n + ExpiresIn(field)

\* now + data.get("expires_in", 3600) - 30
NewExpiry(n, field) == n + ExpiresIn(field) - SafetyMargin

\* _token_expiry = now + data.get("expires_in", 3600) - 30, a TypeError when
\* expires_in is no number
StoreExpiry(t) ==
    /\ variant = "MCPServer" /\ pc[t] = "gst_exp"
    /\ IF data[t].kind = "bad"
       THEN /\ result' = [result EXCEPT ![t] = Raised("Exception")]
            /\ reply' = [reply EXCEPT ![t] = MainExcept("Exception", 0)]
            /\ pc' = [pc EXCEPT ![t] = "done"]
            /\ now' = [now EXCEPT ![t] = 0]
            /\ serial' = [serial EXCEPT ![t] = 0]
            /\ data' = [data EXCEPT ![t] = NoData]
            /\ UNCHANGED <<token_expiry, expBy, tokDone>>
       ELSE /\ token_expiry' = NewExpiry(now[t], data[t])
            /\ expBy' = serial[t]
            /\ tokDone' = (tokDone \/ cached_token = serial[t])
            /\ pc' = [pc EXCEPT ![t] = "gst_ret"]
            /\ UNCHANGED <<result, reply, now, serial, data>>
    /\ UNCHANGED <<config, clock, cached_token, issued, req, decision, ran, seen,
                   upstream, posts, gets>>

\* return _cached_token   (after the refresh: the global is read again)
ReturnNew(t) ==
    /\ variant = "MCPServer" /\ pc[t] = "gst_ret"
    /\ result' = [result EXCEPT ![t] = Returned(cached_token, token_expiry)]
    /\ pc' = [pc EXCEPT ![t] = "tool_get"]
    /\ UNCHANGED <<config, clock, cache, req, decision, ran, now, seen, serial,
                   data, upstream, posts, gets, reply>>

\* the tool's Spotify data requests (requests.get, raise_for_status, the
\* reshaping of the JSON) and main's response
DataOutcomes == {"ok", "HTTPError", "Exception"}

ToolGet(t) ==
    /\ variant = "MCPServer" /\ pc[t] = "tool_get"
    /\ gets' = [gets EXCEPT ![t] = 1]
    /\ \E o \in DataOutcomes :
        reply' = [reply EXCEPT ![t] = IF o = "ok" THEN MainOk ELSE MainExcept(o, 500)]
    /\ pc' = [pc EXCEPT ![t] = "done"]
    \* get_spotify_token's frame is gone
    /\ now' = [now EXCEPT ![t] = 0]
    /\ serial' = [serial EXCEPT ![t] = 0]
    /\ data' = [data EXCEPT ![t] = NoData]
    /\ result' = [result EXCEPT ![t] = Returned(result[t].tok, 0)]
    /\ UNCHANGED <<config, clock, cache, req, decision, ran, seen, upstream, posts>>

\* the response is sent (or the exception left main); the context is free
Finish(t) ==
    /\ pc[t] \in {"done", "escaped"}
    /\ pc' = [pc EXCEPT ![t] = "idle"]
    /\ Reset(t)
    /\ UNCHANGED <<config, clock, cache>>

\* ------------------------------------- server.py: BearerTokenMiddleware
\* MCPServer's main may run on several worker threads at once; server.py and
\* app.py keep no state between requests, so one request in flight shows all
Workers == IF variant = "MCPServer" THEN Threads ELSE {1}

RECURSIVE Texts(_)
Pieces ==
    {BearerPrefix, <<"b", "e", "a", "r", "e", "r", " ">>,
     <<"B", "e", "a", "r", "e", "r">>, <<" ">>, <<"k">>, <<"w">>}
\* every text made of at most n pieces
Texts(n) ==
    IF n = 0 THEN {<<>>}
    ELSE LET shorter == Texts(n - 1)
         IN  shorter \cup {p \o x : p \in Pieces, x \in shorter}
HeaderTexts == Texts(MaxPieces)
AuthHeaders == {Absent} \cup {Some(x) : x \in HeaderTexts}
ApiKeyHeaders ==
    {Absent} \cup {Some(BearerPrefix \o s) : s \in Secrets \cup {<<"w">>}}
Paths ==
    {RootPath, McpMarker, McpMarker \o <<"/">>, <<"/", "x">> \o McpMarker,
     HealthzPath}

\* request.headers.get("authorization") or request.headers.get("api-key")
AuthHeader(r) == PyOr(r.auth, r.apikey)

\* auth_header.replace("Bearer ", "").strip()
ExtractToken(value) == Strip(Replace(value, BearerPrefix))

\* dispatch without the startswith test of line 58
GateNoFormat(r, secret) ==
    IF r.path = RootPath THEN "skip"
    ELSE IF ~Contains(r.path, McpMarker) THEN "skip"
    ELSE IF ~Truthy(AuthHeader(r)) THEN "missing"
    ELSE IF ExtractToken(AuthHeader(r).val) # secret THEN "invalid"
    ELSE "allow"

\* dispatch gating the paths that begin with "/mcp" only
GateByPrefix(r, secret) ==
    IF r.path = RootPath THEN "skip"
    ELSE IF ~StartsWith(r.path, McpMarker) THEN "skip"
    ELSE IF ~Truthy(AuthHeader(r)) THEN "missing"
    ELSE IF ~StartsWith(AuthHeader(r).val, BearerPrefix) THEN "format"
    ELSE IF ExtractToken(AuthHeader(r).val) # secret THEN "invalid"
    ELSE "allow"

\* dispatch's outcome: "skip" (forwarded unchecked), "allow", or the 401 it
\* answers with ("missing", "format", "invalid")
Gate(r, secret) ==
    IF r.path = RootPath THEN "skip"
    ELSE IF ~Contains(r.path, McpMarker) THEN "skip"
    ELSE IF ~Truthy(AuthHeader(r)) THEN "missing"
    ELSE IF ~StartsWith(AuthHeader(r).val, BearerPrefix) THEN "format"
    ELSE IF ExtractToken(AuthHeader(r).val) # secret THEN "invalid"
    ELSE "allow"

Unauthorized(why) ==
    [status |-> 401, kind |-> "unauthorized",
     msg |-> CASE why = "missing" -> "Missing authorization header"
               [] why = "format" -> "Invalid authorization format. Use: Bearer <token>"
               [] OTHER -> "Invalid token"]

\* BearerTokenMiddleware.dispatch up to `await call_next(request)`
Dispatch(t) ==
    /\ variant = "server" /\ phase = "serving"
    /\ t \in Workers
    /\ pc[t] = "idle"
    /\ \E path \in Paths, auth \in AuthHeaders, apikey \in ApiKeyHeaders :
        LET r == [path |-> path, auth |-> auth, apikey |-> apikey]
            d == Gate(r, LOCAL_TOKEN.val)
        IN  /\ req' = [req EXCEPT ![t] = r]
            /\ decision' = [decision EXCEPT ![t] = d]
            /\ IF d \in {"skip", "allow"}
               THEN /\ pc' = [pc EXCEPT ![t] = "fwd"]
                    /\ UNCHANGED reply
               ELSE /\ pc' = [pc EXCEPT ![t] = "done"]
                    /\ reply' = [reply EXCEPT ![t] = Unauthorized(d)]
    /\ UNCHANGED <<config, clock, cache, ran, now, seen, serial, data, upstream,
                   posts, gets, result>>

\* call_next(request): the FastMCP HTTP app serves the MCP endpoint at /mcp;
\* a tools/call message there runs the tool, anything else is answered by the
\* framework
Downstream(t) ==
    /\ variant = "server" /\ pc[t] = "fwd"
    /\ IF req[t].path # McpMarker
       THEN /\ reply' = [reply EXCEPT ![t] = [status |-> 404, kind |-> "notfound", msg |-> ""]]
            /\ pc' = [pc EXCEPT ![t] = "done"]
            /\ UNCHANGED ran
       ELSE \E toolCall \in BOOLEAN :
            IF toolCall
            THEN /\ ran' = [ran EXCEPT ![t] = TRUE]
                 /\ pc' = [pc EXCEPT ![t] = "srv_token"]
                 /\ UNCHANGED reply
            ELSE /\ reply' = [reply EXCEPT ![t] = [status |-> 200, kind |-> "protocol", msg |-> ""]]
                 /\ pc' = [pc EXCEPT ![t] = "done"]
                 /\ UNCHANGED ran
    /\ UNCHANGED <<config, clock, cache, req, decision, now, seen, serial, data,
                   upstream, posts, gets, result>>

\* --------------------------------------- server.py: get_spotify_token()
\* the value returned: resp.json().get("access_token"), None on any exception
ServerToken(r, tok) ==
    IF r.net # "ok" \/ RaiseForStatus(r.status) \/ ~r.body.json \/ ~r.body.access
    THEN [kind |-> "null", tok |-> NoToken, exp |-> 0, exc |-> ""]
    ELSE Returned(tok, 0)

ToolResult(kind, msg) == [status |-> 200, kind |-> kind, msg |-> msg]

\* a tool's first lines: token = get_spotify_token(); if not token: return
\* {"error": "Spotify authentication failed"}.  Nothing is kept between
\* calls: every call sends its own token request
ServerGetToken(t) ==
    /\ variant = "server" /\ pc[t] = "srv_token"
    /\ posts' = [posts EXCEPT ![t] = posts[t] + 1]
    /\ \E r \in Responses :
        /\ upstream' = [upstream EXCEPT ![t] = IF RequestFailed(r) THEN "failed" ELSE "good"]
        /\ result' = [result EXCEPT ![t] = ServerToken(r, issued + 1)]
        /\ IF ServerToken(r, issued + 1).kind = "null"
           THEN /\ reply' = [reply EXCEPT ![t] = ToolResult("error", "Spotify authentication failed")]
                /\ pc' = [pc EXCEPT ![t] = "done"]
           ELSE /\ pc' = [pc EXCEPT ![t] = "srv_get"]
                /\ UNCHANGED reply
    /\ UNCHANGED <<config, clock, cache, req, decision, ran, now, seen, serial,
                   data, gets>>

\* the tool's try block: requests.get, raise_for_status, return resp.json(),
\* any exception returned as {"error": str(e)}
ServerGet(t) ==
    /\ variant = "server" /\ pc[t] = "srv_get"
    /\ gets' = [gets EXCEPT ![t] = 1]
    /\ \E o \in DataOutcomes :
        reply' = [reply EXCEPT ![t] = IF o = "ok" THEN ToolResult("result", "") ELSE ToolResult("error", "str(e)")]
    /\ pc' = [pc EXCEPT ![t] = "done"]
    /\ UNCHANGED <<config, clock, cache, req, decision, ran, now, seen, serial,
                   data, upstream, posts, result>>

\* ------------------------------------------------------ app.py: routes
\* Mount("/mcp", ...) takes the path /mcp and everything below it
UnderMount(path) ==
    /\ StartsWith(path, McpMarker)
    /\ (Len(path) = Len(McpMarker) \/ path[Len(McpMarker) + 1] = "/")

\* Starlette(routes=[Route("/healthz", healthz), Mount("/mcp", app=mcp_asgi)]):
\* no middleware, and no tool is registered on this FastMCP instance
AppRequest(t) ==
    /\ variant = "app" /\ phase = "serving"
    /\ t \in Workers
    /\ pc[t] = "idle"
    /\ \E path \in Paths, auth \in ApiKeyHeaders :
        /\ req' = [req EXCEPT ![t] = [path |-> path, auth |-> auth, apikey |-> Absent]]
        /\ reply' = [reply EXCEPT ![t] =
                IF path = HealthzPath THEN [status |-> 200, kind |-> "result", msg |-> "ok"]
                ELSE IF UnderMount(path) THEN [status |-> 200, kind |-> "protocol", msg |-> ""]
                ELSE [status |-> 404, kind |-> "notfound", msg |-> ""]]
    /\ pc' = [pc EXCEPT ![t] = "done"]
    /\ UNCHANGED <<config, clock, cache, decision, ran, now, seen, serial, data,
                   upstream, posts, gets, result>>

\* ---------------------------------------------------------- specifications
Import == ImportServer \/ ImportApp \/ ImportMCPServer

Step(t) ==
    \/ MainEntry(t)
    \/ GetTokenNow(t)
    \/ CheckCache(t)
    \/ ReturnCached(t)
    \/ PostToken(t)
    \/ ReceiveToken(t)
    \/ StoreExpiry(t)
    \/ ReturnNew(t)
    \/ ToolGet(t)
    \/ Dispatch(t)
    \/ Downstream(t)
    \/ ServerGetToken(t)
    \/ ServerGet(t)
    \/ AppRequest(t)
    \/ Finish(t)

\* the module is about to be imported, under any environment
Init ==
    /\ variant \in Variants
    /\ env \in Envs
    /\ phase = "import"
    /\ InitState

\* the module was imported with its configuration in place (LOCAL_TOKEN is
\* read by server.py alone)
Configured(v, e) ==
    /\ Truthy(e.SPOTIFY_CLIENT_ID) /\ Truthy(e.SPOTIFY_CLIENT_SECRET)
    /\ IF v = "server" THEN Truthy(e.LOCAL_TOKEN) ELSE e.LOCAL_TOKEN = Absent

InitServing ==
    /\ variant \in Variants
    /\ env \in {e \in Envs : Configured(variant, e)}
    /\ phase = "serving"
    /\ InitState

Next == Tick \/ \E t \in Threads : Step(t)

\* from the import on, one request at a time
SeqNext == Import \/ Tick \/ Step(1)

\* the running service, requests handled concurrently
Spec == InitServing /\ [][Next]_vars

SeqSpec == Init /\ [][SeqNext]_vars

\* ===================================================================
\* Properties
\* ===================================================================

\* get_spotify_token has just returned to the tool
JustReturned(t) == variant = "MCPServer" /\ pc[t] = "tool_get"

\* C1: a call of get_spotify_token (MCPServer) that returns a token never
\* returns one whose recorded expiry, _token_expiry at the return, is at or
\* before the `now` the call took
CacheValidity ==
    \A t \in Threads : JustReturned(t) => result[t].exp > now[t]

\* C2: under concurrent refreshes, once the refresh that wrote _cached_token
\* has written its expiry too, the cache holds the token and the expiry of
\* one and the same refresh: never the token of one with the expiry of another
AtomicUpdate ==
    (cached_token # NoToken /\ tokDone) => expBy = cached_token

\* the rule of the specification for one header value v and secret s: v
\* begins with "Bearer ", and what follows that one prefix, trimmed, is s
Authorized(v, s) ==
    /\ StartsWith(v, BearerPrefix)
    /\ Strip(SubSeq(v, Len(BearerPrefix) + 1, Len(v))) = s

\* the request carries a valid bearer credential in one of the two headers
CarriesCredential(r, s) ==
    \/ r.auth.present /\ Authorized(r.auth.val, s)
    \/ r.apikey.present /\ Authorized(r.apikey.val, s)

\* C3: on every entry point, a request without a valid bearer credential
\* runs no tool handler and sends no token request
FailClosedOnDeny ==
    \A t \in Threads :
        (pc[t] # "idle" /\ ~CarriesCredential(req[t], LOCAL_TOKEN.val)) =>
            /\ ~ran[t]
            /\ posts[t] = 0

\* the middleware checked the credential of this request
Checked(t) == variant = "server" /\ decision[t] \in {"allow", "missing", "format", "invalid"}

\* C4: the request is allowed if and only if the chosen header value begins
\* with "Bearer " and the rest after that one prefix, trimmed, equals the
\* configured secret
AuthorizationDecision ==
    \A t \in Threads :
        (Checked(t) /\ Truthy(AuthHeader(req[t]))) =>
            (decision[t] = "allow" <=>
                Authorized(AuthHeader(req[t]).val, LOCAL_TOKEN.val))

\* C5: when both headers are present the decision is the one the
\* Authorization header alone would get
HeaderPrecedence ==
    \A t \in Threads :
        (Checked(t) /\ req[t].auth.present /\ req[t].apikey.present) =>
            (decision[t] = "allow" <=>
                Gate([req[t] EXCEPT !.apikey = Absent], LOCAL_TOKEN.val) = "allow")

\* C6: when the token request failed (no answer, a status outside 2xx, a body
\* without access_token) get_spotify_token gives no token: MCPServer raises,
\* server.py returns None
FailClosedUpstream ==
    \A t \in Threads :
        upstream[t] = "failed" =>
            /\ result[t].kind # "token"
            /\ pc[t] \notin {"gst_exp", "gst_ret", "tool_get", "srv_get"}

\* the stages of the refresh path of get_spotify_token
Refreshing == {"gst_post", "gst_recv", "gst_exp", "gst_ret"}

RefreshOnExpiry ==
    \A t \in Threads :
        (variant = "MCPServer" /\ seen[t] = NoSeen) =>
            /\ pc[t] \in {"gst_recv", "gst_exp", "gst_ret"} => posts[t] = 1
            /\ result[t].kind = "raise" => posts[t] = 1
            /\ JustReturned(t) =>
                /\ posts[t] = 1
                /\ cached_token = serial[t]
                /\ token_expiry =
                        now[t] + (IF data[t].kind = "int" THEN data[t].val ELSE 3600) - 30
                /\ result[t] = Returned(serial[t], token_expiry)

RefreshOnExpiryWitness ==
    \E t \in Threads :
        /\ JustReturned(t)
        /\ seen[t] = NoSeen
        /\ serial[t] = 2
        /\ now[t] > 0

\* C9: when the token could not be got, the caller gets an error payload, no
\* Spotify data request was sent, and the context goes on to its next request
AuthFailureContained ==
    \A t \in Threads :
        /\ (variant = "MCPServer" /\ result[t].kind = "raise") =>
                /\ pc[t] = "done"
                /\ reply[t].kind = "error" /\ reply[t].status >= 400
                /\ gets[t] = 0
                /\ ENABLED Finish(t)
        /\ (variant = "server" /\ result[t].kind = "null") =>
                /\ pc[t] = "done"
                /\ reply[t] = ToolResult("error", "Spotify authentication failed")
                /\ gets[t] = 0
                /\ ENABLED Finish(t)

AuthFailureContainedWitness ==
    \E t \in Threads :
        /\ variant = "MCPServer"
        /\ result[t].kind = "raise"
        /\ reply[t].msg = "Spotify API error"
        /\ posts[t] = 1

\* C10: a service that handles a request was started with the client
\* identifier, the client secret and (where there is a gate) the shared secret
FatalConfiguration ==
    (\E t \in Threads : pc[t] # "idle") =>
        /\ Truthy(SPOTIFY_CLIENT_ID)
        /\ Truthy(SPOTIFY_CLIENT_SECRET)
        /\ (variant = "server" => Truthy(LOCAL_TOKEN))

\* the request of context t is in the hands of server.py and its path
\* contains "/mcp"
OnGatedPath(t) ==
    /\ variant = "server" /\ pc[t] # "idle"
    /\ \E i \in 1..Len(req[t].path) :
            /\ i + 3 <= Len(req[t].path)
            /\ req[t].path[i] = "/" /\ req[t].path[i + 1] = "m"
            /\ req[t].path[i + 2] = "c" /\ req[t].path[i + 3] = "p"

\* the request of context t was handed to call_next
Forwarded(t) ==
    \/ pc[t] \in {"fwd", "srv_token", "srv_get"}
    \/ pc[t] = "done" /\ reply[t].kind # "unauthorized"

\* the request of context t was answered 401 by the middleware itself
Rejected(t) ==
    /\ pc[t] = "done" /\ reply[t].status = 401 /\ reply[t].kind = "unauthorized"
    /\ ~ran[t] /\ posts[t] = 0

\* C11: on a gated path, a request with no Authorization header and an
\* api-key header "Bearer " + the configured secret is allowed and forwarded;
\* a request with neither header is answered 401 and not forwarded
HeaderFallback ==
    \A t \in Threads :
        OnGatedPath(t) =>
            /\ (~req[t].auth.present
                    /\ req[t].apikey = Some(BearerPrefix \o LOCAL_TOKEN.val)) =>
                    (decision[t] = "allow" /\ Forwarded(t))
            /\ (~req[t].auth.present /\ ~req[t].apikey.present) =>
                    (decision[t] = "missing" /\ Rejected(t))

\* C12: on a gated path, a request whose selected header value does not
\* begin with the exact literal "Bearer " is answered 401 and not forwarded,
\* whatever follows
PrefixStrictness ==
    \A t \in Threads :
        (OnGatedPath(t) /\ ~StartsWith(AuthHeader(req[t]).val, BearerPrefix)) =>
            (decision[t] # "allow" /\ Rejected(t))

PrefixStrictnessWitness ==
    \E t \in Threads :
        /\ OnGatedPath(t)
        /\ req[t].auth = Some(<<"b", "e", "a", "r", "e", "r", " ">> \o LOCAL_TOKEN.val)
        /\ decision[t] = "format"
        /\ Rejected(t)

\* C13: at the step in which a call of get_spotify_token (MCPServer) ends by
\* raising, the call has written neither _cached_token nor _token_expiry:
\* it was handed no token that it stored, and the step leaves both alone
FailedRefreshFrame ==
    [][\A t \in Threads :
        (variant = "MCPServer"
            /\ result[t].kind # "raise" /\ result'[t].kind = "raise") =>
            /\ serial[t] = NoToken
            /\ cached_token' = cached_token
            /\ token_expiry' = token_expiry]_vars

\* C14: the middleware forwards a request unchecked exactly when its path
\* is "/" or does not contain "/mcp"; a request whose path contains "/mcp" is
\* forwarded only when its credential matched LOCAL_TOKEN, and is otherwise
\* answered 401 without call_next
GateCoverage ==
    \A t \in Threads :
        (variant = "server" /\ pc[t] # "idle") =>
            /\ decision[t] = "skip" <=> ~OnGatedPath(t)
            /\ ~OnGatedPath(t) => Forwarded(t)
            /\ OnGatedPath(t) =>
                /\ Forwarded(t) =>
                    /\ decision[t] = "allow"
                    /\ StartsWith(AuthHeader(req[t]).val, BearerPrefix)
                    /\ ExtractToken(AuthHeader(req[t]).val) = LOCAL_TOKEN.val
                /\ ~Forwarded(t) => Rejected(t)

GateCoverageWitness ==
    \E t \in Threads :
        /\ OnGatedPath(t)
        /\ req[t].path = <<"/", "x">> \o McpMarker
        /\ decision[t] = "invalid"
        /\ Rejected(t)

====
